---- MODULE Spec2Model ----
(***************************************************************************)
(* The tic-tac-toe board of the repository (TicTacToeBoard, its            *)
(* constructor NewTicTacToeBoard and its methods InBounds, GetMark,        *)
(* IsSpotEmpty, IsGameOver and PlaceMove) as a state machine.              *)
(*                                                                         *)
(* Runes are integers.  0 is the "empty cell" sentinel of the source; the  *)
(* player symbols are the non-zero runes 1..NumPlayers.  The board is a    *)
(* function indexed board[y][x] with 0-based indices, as in the source.    *)
(*                                                                         *)
(* Three specifications: Spec drives the board through its methods with    *)
(* any arguments; SpecMain is the tic-tac-toe CLI (main and its input      *)
(* loop) on top of the same board; SpecDup is the duplicate-line utility   *)
(* of chapter-1/dup.go.                                                    *)
(***************************************************************************)
EXTENDS Integers, FiniteSets, Sequences, TLC

\* ---- bounds of the model ------------------------------------------------
MaxCells == 4      \* boards of at most MaxCells cells (boardWidth * boardHeight)
MaxWin == 3        \* winLineLength arguments up to MaxWin
NumPlayers == 2    \* player symbols 1..NumPlayers
MaxPlayersLen == 2 \* player lists of the CLI of at most MaxPlayersLen symbols
MaxFiles == 2      \* dup: at most MaxFiles file arguments
MaxFileLen == 2    \* dup: inputs of at most MaxFileLen bytes

VARIABLES
    status,         \* "ok": NewTicTacToeBoard returned a board; "panic": it panicked
    args,           \* the arguments NewTicTacToeBoard was called with
    winLineLength,  \* tb.winLineLength
    board,          \* tb.board, indexed board[y][x]; 0 = empty
    freeSpots,      \* tb.freeSpots
    winner,         \* tb.winner, 0 = no winner
    tie,            \* tb.tie
    last,           \* the last call: its name and outcome, and the arguments
                    \* of a PlaceMove that got past the early return
    main,           \* the tic-tac-toe CLI: the locals of its main and where
                    \* its loop stands; NoMain when the board is used directly
    dup             \* the duplicate-line utility: its arguments, its counts
                    \* map and where it stands; NoDup when it does not run

vars == <<status, args, winLineLength, board, freeSpots, winner, tie, last,
          main, dup>>
tbState == <<winLineLength, board, freeSpots, winner, tie>>

Players == 1..NumPlayers

\* the record kept of a call: ok is the return value of IsSpotEmpty and
\* "the move was placed" for PlaceMove; why names the condition that made
\* PlaceMove return early
Call(op, x, y, player, ok, why) ==
    [op |-> op, x |-> x, y |-> y, player |-> player, ok |-> ok, why |-> why]

\* ---- helpers of the source ----------------------------------------------

\* len(tb.board) and len(tb.board[0])
Height(b) == Cardinality(DOMAIN b)
Width(b) == Cardinality(DOMAIN b[0])

InBounds(b, x, y) == x >= 0 /\ x < Width(b) /\ y >= 0 /\ y < Height(b)

GetMarkNonEmptyOutside(b, x, y) == IF ~InBounds(b, x, y) THEN -1 ELSE b[y][x]

GetMark(b, x, y) == IF ~InBounds(b, x, y) THEN 0 ELSE b[y][x]

IsSpotEmptyOf(b, x, y) == GetMark(b, x, y) = 0

IsGameOver == tie \/ winner # 0

\* the closure getLineLength of PlaceMove: the loop that walks from (x, y)
\* in steps of (x_off, y_off) while the cell is in bounds and holds player
RECURSIVE LineLoop(_, _, _, _, _, _, _)
LineLoop(b, player, x, y, x_off, y_off, length) ==
    IF InBounds(b, x, y) /\ b[y][x] = player
    THEN LineLoop(b, player, x + x_off, y + y_off, x_off, y_off, length + 1)
    ELSE length

getLineLengthOffByOne(b, player, x, y, x_off, y_off) ==
    LineLoop(b, player, x + x_off, y + y_off, x_off, y_off, 1)

getLineLength(b, player, x, y, x_off, y_off) ==
    LineLoop(b, player, x + x_off, y + y_off, x_off, y_off, 0)

DirOffsetsNoVertical == <<[x |-> 1, y |-> 1], [x |-> 1, y |-> 0],
                          [x |-> 1, y |-> -1]>>

DirOffsets == <<[x |-> 0, y |-> 1], [x |-> 1, y |-> 1],
                [x |-> 1, y |-> 0], [x |-> 1, y |-> -1]>>

\* the body of the loop over DirOffsets: length of the line through (x, y)
DirLengthWithoutPlacedCell(b, player, x, y, dir) ==
    getLineLength(b, player, x, y, dir.x, dir.y)
        + getLineLength(b, player, x, y, -dir.x, -dir.y)

DirLengthForwardOnly(b, player, x, y, dir) ==
    1 + getLineLength(b, player, x, y, dir.x, dir.y)

DirLength(b, player, x, y, dir) ==
    LET dirLength == getLineLength(b, player, x, y, dir.x, dir.y)
        oppDirLength == getLineLength(b, player, x, y, -dir.x, -dir.y)
    IN  1 + dirLength + oppDirLength

\* the loop over DirOffsets with its break: the value of tb.winner after it
RECURSIVE DirLoop(_, _, _, _, _, _, _)
DirLoop(b, wll, player, x, y, i, n) ==
    IF i > n THEN 0
    ELSE IF DirLength(b, player, x, y, DirOffsets[i]) >= wll THEN player
    ELSE DirLoop(b, wll, player, x, y, i + 1, n)

WinnerAfterNoAntiDiagonal(b, wll, player, x, y) ==
    DirLoop(b, wll, player, x, y, 1, Len(DirOffsets) - 1)

WinnerAfter(b, wll, player, x, y) ==
    DirLoop(b, wll, player, x, y, 1, Len(DirOffsets))

\* the condition of the final if of PlaceMove
TieAfterNever(w, fs) == FALSE

TieAfterIgnoringWinner(w, fs) == fs = 0

TieAfterOneEarly(w, fs) == w = 0 /\ fs <= 1

TieAfter(w, fs) == w = 0 /\ fs = 0

\* tb.freeSpots--
FreeSpotsAfterDouble(fs) == fs - 2

FreeSpotsAfterNoDecrement(fs) == fs

FreeSpotsAfter(fs) == fs - 1

\* the early return of PlaceMove
RejectsOverwriting(x, y) ==
    IsGameOver \/ ~InBounds(board, x, y) \/ freeSpots = 0

RejectsAfterGameOverMissing(x, y) ==
    ~InBounds(board, x, y) \/ board[y][x] # 0 \/ freeSpots = 0

Rejects(x, y) ==
    IsGameOver \/ ~InBounds(board, x, y) \/ board[y][x] # 0 \/ freeSpots = 0

\* ---- construction -------------------------------------------------------

NewTicTacToeBoard(wl, boardWidth, boardHeight) ==
    /\ args = [winLineLength |-> wl, boardWidth |-> boardWidth,
               boardHeight |-> boardHeight]
    /\ last = Call("NewTicTacToeBoard", 0, 0, 0, FALSE, "")
    /\ winner = 0
    /\ tie = FALSE
    /\ IF wl = 0 \/ boardWidth < 1 \/ boardHeight < 1
       THEN /\ status = "panic"
            /\ winLineLength = 0
            /\ board = <<>>
            /\ freeSpots = 0
       ELSE /\ status = "ok"
            /\ winLineLength = wl
            /\ board = [r \in 0..(boardHeight - 1) |->
                           [c \in 0..(boardWidth - 1) |-> 0]]
            /\ freeSpots = boardWidth * boardHeight

\* the value of main while no CLI runs, and of dup while it does not run
NoMain == [pc |-> "off"]
NoDup == [pc |-> "off"]

Init ==
    \E wl \in (-1)..MaxWin, bw \in (-1)..MaxCells, bh \in (-1)..MaxCells :
        /\ bw * bh <= MaxCells
        /\ NewTicTacToeBoard(wl, bw, bh)
        /\ main = NoMain
        /\ dup = NoDup

\* ---- methods ------------------------------------------------------------

\* the first condition of the early return of PlaceMove that holds
WhyRejected(x, y) ==
    IF IsGameOver THEN "over"
    ELSE IF ~InBounds(board, x, y) THEN "bounds"
    ELSE IF board[y][x] # 0 THEN "taken"
    ELSE "full"

PlaceMove(x, y, player) ==
    /\ status = "ok"
    /\ IF Rejects(x, y)
       THEN /\ last' = Call("PlaceMove", 0, 0, 0, FALSE, WhyRejected(x, y))
            /\ UNCHANGED <<board, freeSpots, winner, tie>>
       ELSE LET b == [board EXCEPT ![y][x] = player]
                fs == FreeSpotsAfter(freeSpots)
                w == WinnerAfter(b, winLineLength, player, x, y)
            IN  /\ last' = Call("PlaceMove", x, y, player, TRUE, "")
                /\ board' = b
                /\ freeSpots' = fs
                /\ winner' = w
                /\ tie' = TieAfter(w, fs)
    /\ UNCHANGED <<status, args, winLineLength>>

IsSpotEmpty(x, y) ==
    /\ status = "ok"
    /\ last' = Call("IsSpotEmpty", 0, 0, 0, IsSpotEmptyOf(board, x, y), "")
    /\ UNCHANGED <<status, args, winLineLength, board, freeSpots, winner, tie>>

\* Coordinates handed to the methods: every cell of the board and one step
\* outside it on each side (negative, and equal to the width or height).
XArgs == (-1)..Width(board)
YArgs == (-1)..Height(board)

Next ==
    /\ status = "ok"
    /\ \/ \E x \in XArgs, y \in YArgs, player \in Players :
             PlaceMove(x, y, player)
       \/ \E x \in XArgs, y \in YArgs : IsSpotEmpty(x, y)
    /\ UNCHANGED <<main, dup>>

Spec == Init /\ [][Next]_vars

\* ---- the CLI: main ------------------------------------------------------

\* defaults of the positional arguments
DefaultBoardHeight == 3
DefaultBoardWidth == 3
DefaultWinLineLength == 3
DefaultPlayers == <<1, 2>>     \* "XO"

\* a command-line argument: missing, not a number, or a number
IntArgs(lo, hi) ==
    {[kind |-> "missing", val |-> 0], [kind |-> "bad", val |-> 0]}
        \cup {[kind |-> "int", val |-> v] : v \in lo..hi}

tryArgInt(arg, defaultValue) ==
    IF arg.kind = "int" THEN arg.val ELSE defaultValue

\* the player list argument: missing, or a string of symbols
StrArgs ==
    {[kind |-> "missing", val |-> <<>>]}
        \cup {[kind |-> "str", val |-> v] :
                 v \in UNION {[1..n -> Players] : n \in 0..MaxPlayersLen}}

tryArg(arg, defaultValue) ==
    IF arg.kind = "str" THEN arg.val ELSE defaultValue

max(a, b) == IF a > b THEN a ELSE b

\* main up to the first pass of its loop
MainStart(arg1, arg2, arg3, arg4) ==
    LET boardHeight == max(tryArgInt(arg1, DefaultBoardHeight), 1)
        boardWidth == max(tryArgInt(arg2, DefaultBoardWidth), 1)
        wl == max(tryArgInt(arg3, DefaultWinLineLength), 1)
        given == tryArg(arg4, DefaultPlayers)
        players == IF Len(given) < 2 THEN DefaultPlayers ELSE given
    IN  /\ boardWidth * boardHeight <= MaxCells
        /\ NewTicTacToeBoard(wl, boardWidth, boardHeight)
        /\ main = [pc |-> "prompt", players |-> players,
                   boardWidth |-> boardWidth, boardHeight |-> boardHeight,
                   currPlayerIndex |-> 0, placements |-> 0,
                   out |-> "", announced |-> 0]

InitMain ==
    /\ \E arg1 \in IntArgs(-1, MaxCells), arg2 \in IntArgs(-1, MaxCells),
          arg3 \in IntArgs(-1, MaxWin), arg4 \in StrArgs :
           MainStart(arg1, arg2, arg3, arg4)
    /\ dup = NoDup

\* the index of the next player
NextPlayerStuck(i, n) == i

NextPlayer(i, n) == (i + 1) % n

\* the test of the scanned line: n and err are the results of Sscanf
InvalidInputNoUpperBound(n, err, x, y) ==
    n # 2 \/ err \/ x < 0 \/ y < 0

InvalidInput(n, err, x, y) ==
    \/ n # 2 \/ err
    \/ x < 0 \/ x >= main.boardWidth
    \/ y < 0 \/ y >= main.boardHeight

\* the loop has ended once the board is game-over after a placement
EndsGameNever(over) == FALSE

EndsGame(over) == over

\* scanner.Scan() returns false: the loop ends
ReadEOF ==
    /\ main.pc = "prompt"
    /\ main' = [main EXCEPT !.pc = "done", !.out = "eof"]
    /\ UNCHANGED <<status, args, winLineLength, board, freeSpots, winner, tie,
                   last>>

\* one pass of the loop with a line read: n, err, x, y are what Sscanf
\* made of the line
Turn(n, err, x, y) ==
    /\ main.pc = "prompt"
    /\ IF InvalidInput(n, err, x, y)
       THEN /\ main' = [main EXCEPT !.out = "invalid"]
            /\ UNCHANGED <<status, args, winLineLength, board, freeSpots,
                           winner, tie, last>>
       ELSE IF ~IsSpotEmptyOf(board, x, y)
       THEN /\ main' = [main EXCEPT !.out = "taken"]
            /\ last' = Call("IsSpotEmpty", 0, 0, 0, FALSE, "")
            /\ UNCHANGED <<status, args, winLineLength, board, freeSpots,
                           winner, tie>>
       ELSE /\ PlaceMove(x, y, main.players[main.currPlayerIndex + 1])
            /\ IF EndsGame(IsGameOver')
               THEN main' = [main EXCEPT
                        !.pc = "done",
                        !.placements = @ + 1,
                        !.out = IF winner' # 0 THEN "wins" ELSE "tied",
                        !.announced = winner']
               ELSE main' = [main EXCEPT
                        !.placements = @ + 1,
                        !.out = "placed",
                        !.currPlayerIndex =
                            NextPlayer(@, Len(main.players))]

\* the lines a user may enter: Sscanf finds fewer than two integers, or
\* fails on what follows them, or reads two integers x y (every cell and
\* one step outside the board on each side)
NextMain ==
    /\ \/ ReadEOF
       \/ \E n \in 0..2 : Turn(n, TRUE, 0, 0)
       \/ \E x \in (-1)..main.boardWidth, y \in (-1)..main.boardHeight :
             Turn(2, FALSE, x, y)
    /\ UNCHANGED dup

SpecMain == InitMain /\ [][NextMain]_vars

\* ---- the duplicate-line utility (chapter-1/dup.go) -----------------------

\* the bytes of the inputs: a letter and the newline
LF == "\n"
Bytes == {"a", LF}

\* the contents an input can have
Contents == UNION {[1..n -> Bytes] : n \in 0..MaxFileLen}

\* a file argument: os.Open fails on it, or it opens with some content
FileArgs ==
    {[opens |-> FALSE, content |-> <<>>]}
        \cup {[opens |-> TRUE, content |-> c] : c \in Contents}

\* position of the first newline of data, 0 if it has none
RECURSIVE IndexOfLF(_, _)
IndexOfLF(data, i) ==
    IF i > Len(data) THEN 0
    ELSE IF data[i] = LF THEN i
    ELSE IndexOfLF(data, i + 1)

\* input.Scan() on the unread bytes: whether there is a line, its text, and
\* the bytes left (bufio.ScanLines: up to the newline, or a last
\* unterminated non-empty line)
Scan(data) ==
    LET i == IndexOfLF(data, 1)
    IN  IF i > 0
        THEN [more |-> TRUE, text |-> SubSeq(data, 1, i - 1),
              rest |-> SubSeq(data, i + 1, Len(data))]
        ELSE IF Len(data) > 0
        THEN [more |-> TRUE, text |-> data, rest |-> <<>>]
        ELSE [more |-> FALSE, text |-> <<>>, rest |-> <<>>]

\* counts[line], 0 for a line the map does not hold
CountOf(counts, line) ==
    IF line \in DOMAIN counts THEN counts[line] ELSE 0

\* counts[input.Text()]++
BumpSetToOne(counts, line) ==
    [l \in DOMAIN counts \cup {line} |->
        IF l = line THEN 1 ELSE counts[l]]

Bump(counts, line) ==
    [l \in DOMAIN counts \cup {line} |->
        IF l = line THEN CountOf(counts, line) + 1 ELSE counts[l]]

\* the condition under which the final loop prints a line
Printed(n) == n > 1

\* the tic-tac-toe variables while dup runs
NoBoard ==
    /\ status = "off"
    /\ args = [winLineLength |-> 0, boardWidth |-> 0, boardHeight |-> 0]
    /\ winLineLength = 0
    /\ board = <<>>
    /\ freeSpots = 0
    /\ winner = 0
    /\ tie = FALSE
    /\ last = Call("", 0, 0, 0, FALSE, "")
    /\ main = NoMain

\* main of dup up to its first input: files are os.Args[1:], stdin the
\* standard input (read only when there are no file arguments)
InitDup ==
    /\ NoBoard
    /\ \E files \in UNION {[1..n -> FileArgs] : n \in 0..MaxFiles},
          stdin \in Contents :
          /\ Len(files) > 0 => stdin = <<>>
          /\ dup = [pc |-> "next", files |-> files, stdin |-> stdin,
                    arg |-> 0, unread |-> <<>>, counts |-> <<>>,
                    errors |-> 0, printed |-> {}]

\* start on the next input: standard input when there are no arguments,
\* otherwise the next file, which may fail to open (the error is printed
\* and the nil file is read all the same, giving no line)
OpenNext ==
    /\ dup.pc = "next"
    /\ IF Len(dup.files) = 0
       THEN /\ dup.arg = 0
            /\ dup' = [dup EXCEPT !.pc = "scan", !.arg = 1,
                                  !.unread = dup.stdin]
       ELSE /\ dup.arg < Len(dup.files)
            /\ LET f == dup.files[dup.arg + 1]
               IN  dup' = [dup EXCEPT
                       !.pc = "scan",
                       !.arg = @ + 1,
                       !.unread = IF f.opens THEN f.content ELSE <<>>,
                       !.errors = IF f.opens THEN @ ELSE @ + 1]

\* one pass of the loop of countLines
ScanLine ==
    /\ dup.pc = "scan"
    /\ LET input == Scan(dup.unread)
       IN  IF input.more
           THEN dup' = [dup EXCEPT !.counts = Bump(@, input.text),
                                   !.unread = input.rest]
           ELSE dup' = [dup EXCEPT !.pc = "next"]

\* the final loop over counts
Report ==
    /\ dup.pc = "next"
    /\ dup.arg >= Len(dup.files)
    /\ Len(dup.files) = 0 => dup.arg = 1
    /\ dup' = [dup EXCEPT
           !.pc = "done",
           !.printed = {<<dup.counts[l], l>> :
                           l \in {k \in DOMAIN dup.counts :
                                     Printed(dup.counts[k])}}]

NextDup ==
    /\ \/ OpenNext
       \/ ScanLine
       \/ Report
    /\ UNCHANGED <<status, args, winLineLength, board, freeSpots, winner, tie,
                   last, main>>

SpecDup == InitDup /\ [][NextDup]_vars

\* ---- vocabulary of the properties ---------------------------------------

\* (x, y) is a cell of board b
Inside(b, x, y) == y \in DOMAIN b /\ x \in DOMAIN b[y]

EmptyCells(b) == {c \in (DOMAIN b[0]) \X (DOMAIN b) : b[c[2]][c[1]] = 0}

\* number of contiguous cells holding p strictly beyond (x, y) in direction
\* (dx, dy)
Contiguous(b, p, x, y, dx, dy) ==
    LET marked(i) == /\ Inside(b, x + i * dx, y + i * dy)
                     /\ b[y + i * dy][x + i * dx] = p
        reach == {k \in 0..(Width(b) + Height(b)) : \A i \in 1..k : marked(i)}
    IN  CHOOSE k \in reach : \A j \in reach : j <= k

\* vertical, horizontal and the two diagonals
Axes == {<<0, 1>>, <<1, 0>>, <<1, 1>>, <<1, -1>>}

AxisRun(b, p, x, y, a) ==
    1 + Contiguous(b, p, x, y, a[1], a[2])
      + Contiguous(b, p, x, y, -a[1], -a[2])

Completes(b, p, x, y, n) == \E a \in Axes : AxisRun(b, p, x, y, a) >= n

\* the call is one the contract accepts: game not over, in bounds, cell empty
Acceptable(x, y) == ~IsGameOver /\ Inside(board, x, y) /\ board[y][x] = 0

LastPlaced == last.op = "PlaceMove" /\ last.ok

\* row y of b holds a run of exactly n cells of p and nothing else
RowIsExactRun(b, y, p, n) ==
    /\ n >= 1
    /\ \E s \in 0..(Width(b) - n) :
          \A c \in DOMAIN b[y] :
              b[y][c] = (IF c >= s /\ c < s + n THEN p ELSE 0)

\* ---- C1 -----------------------------------------------------------------
\* C1: after an accepted PlaceMove(x, y, p), with winLineLength >= 1, winner
\* is p if and only if on one of the four axes through (x, y) the value
\* 1 + contiguous p-cells forward + contiguous p-cells backward is
\* >= winLineLength; otherwise winner stays unset.
C1_WinnerIffAxisRun ==
    [][(last'.op = "PlaceMove" /\ last'.ok /\ winLineLength >= 1)
       => LET x == last'.x
              y == last'.y
              p == last'.player
          IN  /\ Acceptable(x, y) /\ p # 0
              /\ PlaceMove(x, y, p)
              /\ winner' = (IF Completes(board', p, x, y, winLineLength)
                            THEN p ELSE 0)]_vars

\* a win found on the anti-diagonal (1,-1) only, by a placement in a game
\* that has both players' marks on the board
C1_Witness ==
    /\ LastPlaced /\ winner = last.player /\ winLineLength = 2
    /\ AxisRun(board, winner, last.x, last.y, <<1, -1>>) >= 2
    /\ \A a \in Axes \ {<<1, -1>>} : AxisRun(board, winner, last.x, last.y, a) < 2

\* ---- C2 -----------------------------------------------------------------
\* C2: PlaceMove(x, y, player) with (x, y) out of bounds (negative
\* coordinates included) or on an occupied cell leaves every cell,
\* freeSpots, winner and tie unchanged.
C2_RejectedUnchanged ==
    [][UNCHANGED tbState
       \/ \A x \in XArgs, y \in YArgs, p \in Players :
             (~Inside(board, x, y) \/ board[y][x] # 0) => ~PlaceMove(x, y, p)]_vars

\* a call rejected for its coordinate, in a game under way
C2_Witness ==
    /\ last.op = "PlaceMove" /\ ~last.ok /\ last.why \in {"bounds", "taken"}
    /\ ~IsGameOver /\ freeSpots < Width(board) * Height(board)

\* ---- C3 -----------------------------------------------------------------
\* C3: once IsGameOver() is true, no later call changes the cells,
\* freeSpots, winner or tie.
C3_GameOverTerminal == [][IsGameOver => UNCHANGED tbState]_vars

\* a PlaceMove rejected because the game is over, while cells are free
C3_Witness ==
    /\ last.op = "PlaceMove" /\ ~last.ok /\ last.why = "over"
    /\ IsGameOver /\ EmptyCells(board) # {}

\* ---- C4 -----------------------------------------------------------------
\* C4: winner and tie are never both set.
C4_WinnerTieExclusive == ~(winner # 0 /\ tie)

\* the win on the last free cell, where both conditions are in play
C4_Witness ==
    /\ status = "ok" /\ winner # 0 /\ freeSpots = 0
    /\ Width(board) * Height(board) > 1

\* ---- C5 -----------------------------------------------------------------
\* C5: an accepted PlaceMove that fills the last empty cell sets tie and
\* leaves winner unset if it completes no run of length >= winLineLength,
\* and sets winner and leaves tie false if it does; tie is never set while
\* an empty cell remains.
C5_LastCellTieOrWin ==
    [][/\ (last'.op = "PlaceMove" /\ last'.ok
             /\ EmptyCells(board) = {<<last'.x, last'.y>>})
          => IF Completes(board', last'.player, last'.x, last'.y, winLineLength)
             THEN winner' = last'.player /\ ~tie'
             ELSE tie' /\ winner' = 0
       /\ tie' => EmptyCells(board') = {}]_vars

\* a tie reached by the placement on the last cell
C5_Witness ==
    /\ LastPlaced /\ tie /\ winner = 0 /\ EmptyCells(board) = {}
    /\ ~Completes(board, last.player, last.x, last.y, winLineLength)

\* ---- C6 -----------------------------------------------------------------
\* C6 as stated: IsSpotEmpty(x, y) is true if and only if (x, y) is in
\* bounds and the cell is unmarked.
C6_AsStated ==
    [][last'.op = "IsSpotEmpty"
       => \A x \in XArgs, y \in YArgs :
             last'.ok # (Inside(board, x, y) /\ board[y][x] = 0)
             => ~IsSpotEmpty(x, y)]_vars

\* C6 amended: IsSpotEmpty(x, y) is true if and only if (x, y) is out of
\* bounds or the cell is unmarked; it changes nothing on the board.
C6_EmptyOrOutside ==
    [][last'.op = "IsSpotEmpty"
       => /\ UNCHANGED tbState
          /\ \A x \in XArgs, y \in YArgs :
                last'.ok # (~Inside(board, x, y) \/ board[y][x] = 0)
                => ~IsSpotEmpty(x, y)]_vars

\* IsSpotEmpty returned true on a board without any empty cell
C6_Witness ==
    /\ last.op = "IsSpotEmpty" /\ last.ok
    /\ EmptyCells(board) = {}

\* ---- C7 -----------------------------------------------------------------
\* C7: freeSpots decreases by exactly 1 on every accepted PlaceMove, is
\* unchanged by every rejected one, never increases, never goes below 0.
C7_FreeSpotsCount ==
    [][/\ last'.op = "PlaceMove"
          => /\ last'.ok => Acceptable(last'.x, last'.y)
             /\ freeSpots' = (IF last'.ok THEN freeSpots - 1 ELSE freeSpots)
       /\ freeSpots' <= freeSpots
       /\ freeSpots' >= 0]_vars

\* the last free spot has been taken by an accepted placement
C7_Witness ==
    /\ LastPlaced /\ freeSpots = 0
    /\ Width(board) * Height(board) >= 4

\* ---- C8 -----------------------------------------------------------------
\* C8: when a placement in a game not yet over leaves its row holding a
\* horizontal run of exactly winLineLength cells of one symbol and no other
\* mark, winner is that symbol.
C8_HorizontalRunWins ==
    [][(/\ last'.op = "PlaceMove" /\ last'.ok
        /\ ~IsGameOver
        /\ RowIsExactRun(board', last'.y, last'.player, winLineLength))
       => winner' = last'.player]_vars

\* a run of three completed by its middle cell, on a row wider than the run
C8_Witness ==
    /\ LastPlaced /\ winner = last.player /\ winLineLength = 3
    /\ RowIsExactRun(board, last.y, winner, 3)
    /\ Width(board) > 3
    /\ Inside(board, last.x - 1, last.y) /\ board[last.y][last.x - 1] = winner
    /\ Inside(board, last.x + 1, last.y) /\ board[last.y][last.x + 1] = winner

\* ---- C9 -----------------------------------------------------------------
\* C9 as stated: every board NewTicTacToeBoard returns has width >= 1,
\* height >= 1 and winLineLength >= 1, and a call with a width, height or
\* winLineLength below 1 panics.
C9_AsStated ==
    /\ status = "ok"
       => /\ Width(board) >= 1 /\ Height(board) >= 1
          /\ winLineLength >= 1
    /\ (args.winLineLength < 1 \/ args.boardWidth < 1 \/ args.boardHeight < 1)
       => status = "panic"

\* ---- C10 ----------------------------------------------------------------
\* C10: when winLineLength exceeds both board dimensions, winner is never
\* set, and the game is over only as the tie of the full board.
C10_NoWinPossible ==
    (/\ status = "ok"
     /\ winLineLength > Width(board)
     /\ winLineLength > Height(board))
    => /\ winner = 0
       /\ IsGameOver => (tie /\ freeSpots = 0 /\ EmptyCells(board) = {})

\* the tie of a full two-dimensional board that no line of the length fits
C10_Witness ==
    /\ status = "ok" /\ tie
    /\ Width(board) >= 2 /\ Height(board) >= 2
    /\ winLineLength > Width(board) /\ winLineLength > Height(board)

\* ---- C11 ----------------------------------------------------------------
\* C11: with winLineLength 1 every accepted placement is the first one and
\* sets winner to the placed symbol at once, and tie is never set.
C11_WinLengthOneFirstMoveWins ==
    [][winLineLength = 1
       => /\ ~tie /\ ~tie'
          /\ (last'.op = "PlaceMove" /\ last'.ok)
             => /\ freeSpots = Width(board) * Height(board)
                /\ winner' = last'.player /\ winner' # 0]_vars

\* the first move has won on a board that still has free cells
C11_Witness ==
    /\ LastPlaced /\ winLineLength = 1 /\ winner = last.player
    /\ freeSpots = Width(board) * Height(board) - 1 /\ freeSpots > 0

\* ---- C12 ----------------------------------------------------------------
\* C12: a marked cell keeps its symbol in every later state.
C12_MarksPermanent ==
    [][status = "ok"
       => \A y \in DOMAIN board : \A x \in DOMAIN board[y] :
             board[y][x] # 0 => board'[y][x] = board[y][x]]_vars

\* a PlaceMove on a marked cell has been turned away while the game runs
C12_Witness ==
    /\ last.op = "PlaceMove" /\ ~last.ok /\ last.why = "taken"
    /\ \E p \in Players, q \in Players :
          /\ p # q
          /\ \E y \in DOMAIN board : \E x \in DOMAIN board[y] : board[y][x] = p
          /\ \E y \in DOMAIN board : \E x \in DOMAIN board[y] : board[y][x] = q

\* ---- C16 ----------------------------------------------------------------
\* C16: freeSpots equals the number of empty cells of the board, and the
\* freeSpots == 0 condition is never the one that turns a PlaceMove away.
C16_FreeSpotsIsEmptyCount ==
    status = "ok"
    => /\ freeSpots = Cardinality(EmptyCells(board))
       /\ ~(last.op = "PlaceMove" /\ ~last.ok /\ last.why = "full")

\* a game under way with marked and empty cells
C16_Witness ==
    /\ LastPlaced /\ ~IsGameOver
    /\ freeSpots >= 1 /\ freeSpots <= Width(board) * Height(board) - 2

\* ---- C17 ----------------------------------------------------------------
\* board b holds n contiguous cells of p in a row, column or diagonal
HasRun(b, p, n) ==
    \E y \in DOMAIN b : \E x \in DOMAIN b[y] : \E a \in Axes :
        \A i \in 0..(n - 1) :
            /\ Inside(b, x + i * a[1], y + i * a[2])
            /\ b[y + i * a[2]][x + i * a[1]] = p

WinnerIffRun ==
    (status = "ok" /\ winLineLength >= 1)
    => /\ winner # 0 <=> \E p \in Players : HasRun(board, p, winLineLength)
       /\ winner # 0 => HasRun(board, winner, winLineLength)

\* C17: with winLineLength >= 1, winner is set if and only if the board
\* holds a straight run of winLineLength cells of one symbol; winner is then
\* the symbol of such a run and of the last accepted placement (it is set
\* by an accepted placement of that symbol and none is accepted after it);
\* while the game is not over (winner unset) the board holds no such run.
C17_WinnerIffRunOnBoard ==
    /\ []WinnerIffRun
    /\ [][/\ (winner = 0 /\ winner' # 0)
             => (last'.op = "PlaceMove" /\ last'.ok /\ last'.player = winner')
          /\ (winner # 0 /\ last' # last)
             => ~(last'.op = "PlaceMove" /\ last'.ok)]_vars

\* a vertical run of two has just been completed
C17_Witness ==
    /\ LastPlaced /\ winner = last.player /\ winLineLength = 2
    /\ AxisRun(board, winner, last.x, last.y, <<0, 1>>) >= 2
    /\ HasRun(board, winner, 2)

\* ---- C18 ----------------------------------------------------------------
MarkedCells(b) == ((DOMAIN b[0]) \X (DOMAIN b)) \ EmptyCells(b)

\* C18: while the game is not over some in-bounds empty cell exists whose
\* PlaceMove is accepted; every accepted placement marks one more cell, so
\* the marked cells count the accepted placements; and once width*height
\* placements have been made the game is over.
C18_NeverStuckAlwaysEnds ==
    /\ []((status = "ok" /\ ~IsGameOver)
            => \E c \in EmptyCells(board) : ~Rejects(c[1], c[2]))
    /\ []((status = "ok"
            /\ Cardinality(MarkedCells(board)) >= Width(board) * Height(board))
            => IsGameOver)
    /\ [][(last'.op = "PlaceMove" /\ last'.ok /\ last' # last)
          => Cardinality(MarkedCells(board'))
                = Cardinality(MarkedCells(board)) + 1]_vars

\* the game that ran to its last cell and ended there
C18_Witness ==
    /\ LastPlaced /\ IsGameOver
    /\ Cardinality(MarkedCells(board)) = Width(board) * Height(board)
    /\ Width(board) * Height(board) = MaxCells

\* ---- C13 ----------------------------------------------------------------
\* what the loop has in hand between two passes: the board, whose turn it
\* is, and that it prompts
turnState == <<tbState, main.players, main.currPlayerIndex, main.placements,
               main.pc>>

\* C13: a pass of the loop whose input line is malformed (Sscanf finds
\* fewer than two integers or fails), out of range or names an occupied
\* cell changes neither the board state nor the current player index and
\* leaves the loop prompting the same player: a pass that changes any of
\* these is not one with such a line.
C13_BadInputKeepsTurn ==
    [][UNCHANGED turnState
       \/ /\ \A n \in 0..2, err \in BOOLEAN :
                (n # 2 \/ err) => ~Turn(n, err, 0, 0)
          /\ \A x \in (-1)..main.boardWidth, y \in (-1)..main.boardHeight :
                (~Inside(board, x, y) \/ board[y][x] # 0)
                => ~Turn(2, FALSE, x, y)]_vars

\* the loop has turned away an occupied cell and prompts again
C13_Witness ==
    /\ main.pc = "prompt" /\ main.out = "taken"
    /\ main.placements >= 1
    /\ main.currPlayerIndex = main.placements % Len(main.players)

\* ---- C14 ----------------------------------------------------------------
\* C14: the loop has ended with an announcement exactly when the board is
\* game-over, which it became by the last placement; it announces the
\* winner's symbol if winner is set and a tie otherwise; nothing happens
\* after the end; while the board is not game-over the loop is prompting,
\* unless the input has ended.
C14_EndsAtGameOver ==
    /\ [](IsGameOver
            => /\ main.pc = "done" /\ LastPlaced
               /\ main.out = (IF winner # 0 THEN "wins" ELSE "tied")
               /\ main.announced = winner)
    /\ [](~IsGameOver
            => \/ main.pc = "prompt"
               \/ main.pc = "done" /\ main.out = "eof")
    /\ [][main.pc = "prompt"
          /\ IsGameOver' => (last'.op = "PlaceMove" /\ last'.ok
                               /\ main'.placements = main.placements + 1)]_vars

\* the game has ended in a tie and the loop has announced it
C14_Witness ==
    /\ main.pc = "done" /\ main.out = "tied" /\ tie
    /\ main.placements = Width(board) * Height(board)

\* ---- C19 ----------------------------------------------------------------
\* C19: every PlaceMove the loop makes is accepted; the k-th of them
\* (from 0) places players[k mod n]; while the loop prompts the current
\* player index is the number of placements mod n, advancing by one (mod n)
\* with each placement that does not end the game; an announced winner is
\* the symbol of the last placement.
C19_TurnsRotate ==
    /\ [](main.pc = "prompt"
            => main.currPlayerIndex = main.placements % Len(main.players))
    /\ []((main.pc = "done" /\ main.out = "wins")
            => (LastPlaced /\ main.announced = last.player))
    /\ [][main'.placements # main.placements
          => /\ main'.placements = main.placements + 1
             /\ last'.op = "PlaceMove" /\ last'.ok
             /\ last'.player
                  = main.players[(main.placements % Len(main.players)) + 1]
             /\ main'.pc = "prompt"
                => main'.currPlayerIndex
                      = (main.currPlayerIndex + 1) % Len(main.players)]_vars

\* the third placement, by the first player again, has won the game
C19_Witness ==
    /\ main.pc = "done" /\ main.out = "wins" /\ main.placements = 3
    /\ main.players[1] # main.players[2]
    /\ main.announced = main.players[1]

\* ---- C15 ----------------------------------------------------------------
\* the lines of the inputs: sequences of letters
Lines == UNION {[1..n -> Bytes \ {LF}] : n \in 0..(MaxFileLen + 1)}

\* a line of content starts at byte i, and the text of that line
LineStartsAt(content, i) ==
    i \in 1..Len(content) /\ (i = 1 \/ content[i - 1] = LF)

LineTextAt(content, i) ==
    LET ends == {j \in i..Len(content) : content[j] = LF} \cup {Len(content) + 1}
        j == CHOOSE e \in ends : \A f \in ends : e <= f
    IN  SubSeq(content, i, j - 1)

\* how often line occurs in content
Occurrences(content, line) ==
    Cardinality({i \in 1..Len(content) :
                    LineStartsAt(content, i) /\ LineTextAt(content, i) = line})

\* the inputs that get read: the files that open, or the standard input
InputsRead ==
    IF Len(dup.files) = 0 THEN <<dup.stdin>>
    ELSE [i \in 1..Len(dup.files) |->
            IF dup.files[i].opens THEN dup.files[i].content ELSE <<>>]

RECURSIVE TotalUpTo(_, _)
TotalUpTo(line, n) ==
    IF n = 0 THEN 0
    ELSE TotalUpTo(line, n - 1) + Occurrences(InputsRead[n], line)

Total(line) == TotalUpTo(line, Len(InputsRead))

\* C15: once every input has been read the count of each line is the number
\* of times that exact line occurs over all inputs together, and a line is
\* printed, with that count, if and only if the count is greater than 1.
C15_CountsAcrossFiles ==
    dup.pc = "done"
    => \A line \in Lines :
          /\ CountOf(dup.counts, line) = Total(line)
          /\ (\E n \in 0..(MaxFiles * (MaxFileLen + 1)) :
                 <<n, line>> \in dup.printed) <=> Total(line) > 1
          /\ \A e \in dup.printed : e[2] = line => e[1] = Total(line)

\* a line that occurs once in each of two files has been printed with 2
C15_Witness ==
    /\ dup.pc = "done" /\ Len(dup.files) = 2
    /\ \E line \in Lines :
          /\ <<2, line>> \in dup.printed
          /\ Occurrences(InputsRead[1], line) = 1
          /\ Occurrences(InputsRead[2], line) = 1

====
